---- MODULE Spec2Model ----
(***************************************************************************)
(* Result extraction and indexed-array assembly of the DFT workflow:       *)
(*   scripts/4_extract_energies.py  (Log Parser, Aggregator, Exporter)     *)
(*   scripts/5_create_npy.py        (Indexed Array Assembler)              *)
(*                                                                         *)
(* Text is modelled as sequences of one-character strings, so that the     *)
(* regular expressions, float() and int() are computed on characters.      *)
(* A float is an exact decimal scaled by 1000 (three fractional digits),   *)
(* tagged with a NaN flag: [nan |-> BOOLEAN, v |-> Int].                   *)
(* An optional value (Python None) is <<>>, a present value x is <<x>>.    *)
(***************************************************************************)
EXTENDS Integers, Sequences, FiniteSets, TLC

\* ------------------------------------------------------------------ bounds
\* Largest number of labelled items in one output document (parser inputs).
MaxItems == 2

\* Largest number of entries of the calculations directory (scan inputs).
MaxDirs == 2

\* -------------------------------------------------------------- characters
Digits == {"0", "1", "2", "3", "4", "5", "6", "7", "8", "9"}

DigitVal(c) ==
  CASE c = "0" -> 0 [] c = "1" -> 1 [] c = "2" -> 2 [] c = "3" -> 3
    [] c = "4" -> 4 [] c = "5" -> 5 [] c = "6" -> 6 [] c = "7" -> 7
    [] c = "8" -> 8 [] c = "9" -> 9

None == <<>>

Some(x) == <<x>>

IsNone(o) == o = <<>>

NaN == [nan |-> TRUE, v |-> 0]

Num(n) == [nan |-> FALSE, v |-> n]

\* Length of the longest prefix of s whose characters are all in class.
RECURSIVE SpanLen(_, _)
SpanLen(s, class) ==
  IF s = <<>> \/ Head(s) \notin class THEN 0 ELSE 1 + SpanLen(Tail(s), class)

Drop(s, n) == SubSeq(s, n + 1, Len(s))

Take(s, n) == SubSeq(s, 1, n)

\* Value of a digit string read as a natural number.
RECURSIVE NatOf(_)
NatOf(ds) ==
  IF ds = <<>> THEN 0 ELSE 10 * NatOf(Take(ds, Len(ds) - 1)) + DigitVal(ds[Len(ds)])

\* Value of a fractional digit string in thousandths (the texts of the model
\* have at most three fractional digits).
FracOf(ds) ==
  LET d(i) == IF i <= Len(ds) THEN DigitVal(ds[i]) ELSE 0
  IN 100 * d(1) + 10 * d(2) + d(3)

\* float(text) for the texts the patterns can capture: [sign] digits [. [digits]]
\* or [sign] . digits; anything else raises ValueError (None here).
PyFloat(text) ==
  LET signed == text # <<>> /\ Head(text) \in {"-", "+"}
      body == IF signed THEN Tail(text) ELSE text
      ni == SpanLen(body, Digits)
      rest == Drop(body, ni)
      dotted == rest # <<>> /\ Head(rest) = "."
      frac == IF dotted THEN Tail(rest) ELSE <<>>
      nf == SpanLen(frac, Digits)
      wellFormed == /\ ni + nf >= 1
                    /\ IF dotted THEN nf = Len(frac) ELSE rest = <<>>
      mag == 1000 * NatOf(Take(body, ni)) + FracOf(Take(frac, nf))
  IN IF ~wellFormed THEN None
     ELSE Some(Num(IF signed /\ Head(text) = "-" THEN 0 - mag ELSE mag))

\* int(text): [sign] digits; anything else raises ValueError (None here).
PyInt(text) ==
  LET signed == text # <<>> /\ Head(text) \in {"-", "+"}
      body == IF signed THEN Tail(text) ELSE text
  IN IF body = <<>> \/ SpanLen(body, Digits) # Len(body) THEN None
     ELSE Some(IF signed /\ Head(text) = "-" THEN 0 - NatOf(body) ELSE NatOf(body))

\* ------------------------------------------------------- output documents
\* A document is the sequence of its labelled items in document order; an item
\* is a label text followed by the text that stands after it.  Labels:
\*   "woe"    energy  without entropy =        "sigma"  energy(sigma->0) =
\*   "toten"  free  energy   TOTEN =  ... eV   "cpu"    Total CPU time used (sec):
\*   "marker" reached required accuracy        "dav"    DAV:
\*   "force"  POSITION  TOTAL-FORCE            "other"  any other text
Labels(doc) == {doc.items[i].label : i \in 1..Len(doc.items)}

\* ([-\d\.]+) : the longest non-empty run of '-', digits and '.'.
CaptureLoose(text) == Take(text, SpanLen(text, Digits \cup {"-", "."}))

\* ([\d\.]+) : the longest non-empty run of digits and '.'.
CaptureCpu(text) == Take(text, SpanLen(text, Digits \cup {"."}))

\* ([-+]?\d+\.\d+) : optional sign, digits, a dot, digits.
CaptureStrict(text) ==
  LET signed == text # <<>> /\ Head(text) \in {"-", "+"}
      body == IF signed THEN Tail(text) ELSE text
      ni == SpanLen(body, Digits)
      rest == Drop(body, ni)
      nf == IF rest # <<>> /\ Head(rest) = "." THEN SpanLen(Tail(rest), Digits) ELSE 0
  IN IF ni >= 1 /\ nf >= 1 THEN Take(text, (IF signed THEN 1 ELSE 0) + ni + 1 + nf)
     ELSE <<>>

\* ([-+]?\d+\.\d+)\s*eV : the number must be followed by the unit, so the
\* capture is the whole text that stands between '=' and 'eV'.
CaptureToten(text) ==
  IF CaptureStrict(text) = text THEN text ELSE <<>>

\* The capture group of each of the patterns, by pattern name.
CaptureBy(pattern, text) ==
  CASE pattern = "loose" -> CaptureLoose(text)
    [] pattern = "cpu" -> CaptureCpu(text)
    [] pattern = "strict" -> CaptureStrict(text)
    [] pattern = "toten" -> CaptureToten(text)

\* re.findall: the captures of all matches of one labelled pattern, in document order.
RECURSIVE FindAll(_, _, _)
FindAll(items, label, pattern) ==
  IF items = <<>> THEN <<>>
  ELSE LET rest == FindAll(Tail(items), label, pattern)
           cap == CaptureBy(pattern, Head(items).text)
       IN IF Head(items).label = label /\ cap # <<>> THEN <<cap>> \o rest ELSE rest

Last(s) == s[Len(s)]

RECURSIVE CountLabel(_, _)
CountLabel(items, label) ==
  IF items = <<>> THEN 0
  ELSE (IF Head(items).label = label THEN 1 ELSE 0) + CountLabel(Tail(items), label)

\* Minimum document size in bytes below which the Assembler does not parse.
MinOutcarSize == 1000

\* the convergence test, were it also satisfied by a found energy
AggConverged_WithEnergy(doc) ==
  "marker" \in Labels(doc) \/ FindAll(doc.items, "woe", "loose") # <<>>

\* 'reached required accuracy' in content
AggConverged(doc) == "marker" \in Labels(doc)

\* the except clause, were it to drop the exception text
AggCaught_Dropped(result, message) == result

\* except Exception as e: result['error'] = str(e)
AggCaught(result, message) == [result EXCEPT !.error = Some(message)]

\* 4_extract_energies.py: extract_energy_from_outcar(outcar_path)
AggInitialResult ==
  [energy_without_entropy |-> None, energy_sigma_0 |-> None, converged |-> FALSE,
   electronic_steps |-> 0, ionic_steps |-> 0, total_cpu_time |-> None, error |-> None]

AggExtract(doc) ==
  LET r0 == AggInitialResult
      r1 == [r0 EXCEPT !.converged = AggConverged(doc)]
      cpus == FindAll(doc.items, "cpu", "cpu")
      cpuRaises == cpus # <<>> /\ IsNone(PyFloat(cpus[1]))
      r2 == IF cpus # <<>> THEN [r1 EXCEPT !.total_cpu_time = PyFloat(cpus[1])] ELSE r1
      woes == FindAll(doc.items, "woe", "loose")
      woeRaises == woes # <<>> /\ IsNone(PyFloat(Last(woes)))
      r3 == IF woes # <<>> THEN [r2 EXCEPT !.energy_without_entropy = PyFloat(Last(woes))] ELSE r2
      sigmas == FindAll(doc.items, "sigma", "loose")
      sigmaRaises == sigmas # <<>> /\ IsNone(PyFloat(Last(sigmas)))
      r4 == IF sigmas # <<>> THEN [r3 EXCEPT !.energy_sigma_0 = PyFloat(Last(sigmas))] ELSE r3
      r5 == [r4 EXCEPT !.electronic_steps = CountLabel(doc.items, "dav"),
                       !.ionic_steps = CountLabel(doc.items, "force")]
  IN IF ~doc.exists THEN [r0 EXCEPT !.error = Some("OUTCAR not found")]
     ELSE IF ~doc.readable THEN AggCaught(r0, "read error")
     ELSE IF cpuRaises THEN AggCaught(r1, "could not convert string to float")
     ELSE IF woeRaises THEN AggCaught(r2, "could not convert string to float")
     ELSE IF sigmaRaises THEN AggCaught(r3, "could not convert string to float")
     ELSE r5

\* 5_create_npy.py: extract_energy_from_outcar(outcar_path, energy_type)
AsmExtract(doc, energy_type) ==
  LET sigmas == FindAll(doc.items, "sigma", "strict")
      totens == FindAll(doc.items, "toten", "toten")
  IN IF ~doc.exists THEN None
     ELSE IF doc.size < MinOutcarSize THEN None
     ELSE IF ~doc.readable THEN None
     ELSE IF "marker" \notin Labels(doc) THEN None
     ELSE IF energy_type = "sigma0" /\ sigmas # <<>> THEN PyFloat(Last(sigmas))
     ELSE IF totens # <<>> THEN PyFloat(Last(totens))
     ELSE None

\* ------------------------------------------------------------ directories
\* Code point of the characters that occur in names (for string comparison).
Code(c) ==
  CASE c = "-" -> 45 [] c \in Digits -> 48 + DigitVal(c) [] c = "_" -> 95
    [] c = "a" -> 97 [] c = "c" -> 99 [] c = "l" -> 108 [] c = "n" -> 110
    [] c = "r" -> 114 [] c = "u" -> 117 [] c = "x" -> 120

\* a < b for strings (Path objects of one parent compare as their names).
RECURSIVE LexLess(_, _)
LexLess(a, b) ==
  IF b = <<>> THEN FALSE
  ELSE IF a = <<>> THEN TRUE
  ELSE IF Head(a) # Head(b) THEN Code(Head(a)) < Code(Head(b))
  ELSE LexLess(Tail(a), Tail(b))

\* sorted(names)
RECURSIVE SortedNames(_)
SortedNames(names) ==
  IF names = {} THEN <<>>
  ELSE LET least == CHOOSE n \in names : \A m \in names \ {n} : LexLess(n, m)
       IN <<least>> \o SortedNames(names \ {least})

CalcPrefix == <<"c", "a", "l", "c", "_">>

\* name.startswith('calc_')
StartsWithCalc(name) ==
  Len(name) >= Len(CalcPrefix) /\ Take(name, Len(CalcPrefix)) = CalcPrefix

\* name.split('_')[1] for a name that contains an underscore
SplitSecond(name) ==
  LET afterFirst == Drop(name, SpanLen(name, {c \in {name[i] : i \in 1..Len(name)} : c # "_"}) + 1)
  IN Take(afterFirst, SpanLen(afterFirst, {c \in {name[i] : i \in 1..Len(name)} : c # "_"}))

\* int(calc_name.split('_')[1]) under try/except: None when it raises
ParseIndex(name) == PyInt(SplitSecond(name))

\* ------------------------------------------------------------------ inputs
Item(label, text) == [label |-> label, text |-> text]

TxtM10_5 == <<"-", "1", "0", ".", "5">>

TxtM12_345 == <<"-", "1", "2", ".", "3", "4", "5">>

TxtM9_25 == <<"-", "9", ".", "2", "5">>

TxtP3_5 == <<"+", "3", ".", "5">>

TxtM11_0 == <<"-", "1", "1", ".", "0">>

\* a number that ends a sentence: "-1.5."
TxtM1_5Stop == <<"-", "1", ".", "5", ".">>

TxtCpu == <<"4", "2", ".", "5">>

TxtCpuStop == <<"1", ".", "2", ".">>

Marker == Item("marker", <<>>)

ParserItems ==
  {Marker, Item("dav", <<>>), Item("force", <<>>), Item("other", <<>>),
   Item("woe", TxtM10_5), Item("woe", TxtM12_345), Item("woe", TxtM1_5Stop),
   Item("sigma", TxtM10_5), Item("sigma", TxtM9_25), Item("sigma", TxtP3_5),
   Item("toten", TxtM11_0), Item("cpu", TxtCpu), Item("cpu", TxtCpuStop)}

SeqsUpTo(S, n) == UNION {[1..k -> S] : k \in 0..n}

Document(size, readable, items) ==
  [exists |-> TRUE, readable |-> readable, size |-> size, items |-> items]

MissingDoc == [exists |-> FALSE, readable |-> FALSE, size |-> 0, items |-> <<>>]

DocSizes == {500, 999, 1000}

ParserDocs ==
  {MissingDoc} \cup
  {Document(sz, rd, its) : sz \in DocSizes, rd \in BOOLEAN, its \in SeqsUpTo(ParserItems, MaxItems)}

EnergyTypes == {"sigma0", "free"}

\* Output documents of the run directories of a scan.
DocGood == Document(2000, TRUE,
  <<Item("woe", TxtM10_5), Item("sigma", TxtM9_25), Item("cpu", TxtCpu), Marker>>)

DocGood2 == Document(2000, TRUE,
  <<Item("woe", TxtM10_5), Item("woe", TxtM12_345), Item("sigma", TxtM12_345),
    Item("toten", TxtM11_0), Marker>>)

DocNotConverged == Document(2000, TRUE, <<Item("woe", TxtM10_5), Item("sigma", TxtM10_5)>>)

DocSmall == Document(500, TRUE, <<Item("woe", TxtM10_5), Item("sigma", TxtM10_5), Marker>>)

DocPrimaryOnly == Document(2000, TRUE, <<Item("dav", <<>>), Item("woe", TxtM12_345)>>)

DocTotenOnly == Document(2000, TRUE, <<Item("toten", TxtM11_0), Marker>>)

DocMalformed == Document(2000, TRUE, <<Item("sigma", TxtM9_25), Item("woe", TxtM1_5Stop), Marker>>)

DocUnreadable == Document(2000, FALSE, <<>>)

ScanDocs ==
  {MissingDoc, DocGood, DocGood2, DocNotConverged, DocSmall, DocPrimaryOnly,
   DocTotenOnly, DocMalformed, DocUnreadable}

Calc0000 == CalcPrefix \o <<"0", "0", "0", "0">>

Calc0002 == CalcPrefix \o <<"0", "0", "0", "2">>

Calc2 == CalcPrefix \o <<"2">>

CalcNeg1 == CalcPrefix \o <<"-", "1">>

CalcX == CalcPrefix \o <<"x">>

Run1 == <<"r", "u", "n", "_", "1">>

EntryNames == {Calc0000, Calc0002, Calc2, CalcNeg1, CalcX, Run1}

\* An entry of the calculations directory: a directory with its OUTCAR, or a regular file.
DirEntry(doc) == [isdir |-> TRUE, doc |-> doc]

FileEntry == [isdir |-> FALSE, doc |-> MissingDoc]

\* The entries a name is scanned as.  The cases of the documents are carried by
\* calc_0000 and calc_0002, the cases of the identifiers (duplicate, negative,
\* not a number, not a run directory) by the other names with a few documents.
EntryStates(name) ==
  CASE name = Calc0000 -> {DirEntry(d) : d \in ScanDocs} \cup {FileEntry}
    [] name = Calc0002 -> {DirEntry(d) : d \in ScanDocs}
    [] name = Calc2 -> {DirEntry(MissingDoc), DirEntry(DocGood), DirEntry(DocTotenOnly)}
    [] name = CalcNeg1 -> {DirEntry(DocGood), DirEntry(DocTotenOnly)}
    [] name = CalcX -> {DirEntry(DocGood), DirEntry(DocPrimaryOnly)}
    [] OTHER -> {DirEntry(DocGood)}

FileSystems ==
  UNION {{f \in [S -> UNION {EntryStates(n) : n \in S}] : \A n \in S : f[n] \in EntryStates(n)} :
         S \in {T \in SUBSET EntryNames : Cardinality(T) <= MaxDirs}}

EmptyFs == [n \in {} |-> FileEntry]

\* ------------------------------------------------------------------- state
VARIABLES
  doc,        \* parser check: the document given to the two parsers
  etype,      \* parser check: the energy type given to the Assembler's parser
  aggOut,     \* parser check: result of the Aggregator's parser, None before the call
  asmOut,     \* parser check: <<result>> of the Assembler's parser, None before the call
  fs,         \* the calculations directory: entry name -> entry
  aggPc,      \* Aggregator: "idle", "scan", "summary", "export", "report", "done", "crashed"
  calc_dirs,  \* Aggregator: the selected directories not yet processed
  results,    \* Aggregator: the records appended so far
  visited,    \* Aggregator: the directories the loop has processed, in order
  summary,    \* Aggregator: the printed summary counts, None before they are printed
  exported,   \* Exporter: the persisted artifacts (None: not written)
  report,     \* Exporter: the failed and not-converged lists printed last, None before
  asmPc,      \* Assembler: "idle", "created", "saved", "described", "verified", "done"
  args,       \* Assembler: the command-line arguments in use
  energies,   \* Assembler: the in-memory array, None before it is created
  metadata,   \* Assembler: the metadata dictionary, None before it is created
  disk,       \* Assembler: the files written, path -> content
  loaded,     \* Assembler: the outcome of np.load in the verification, None before
  banner,     \* Assembler: the completion banner has been printed
  exitStatus, \* Assembler: the exit status of the process, None while it runs
  exportErrors, \* Exporter: the exceptions its writers raised, in order
  userCsv,    \* Assembler: the table of a --csv-file not written by this scan, None without
  refArgs,    \* reference setup: the directories and files found, and --dry-run
  refPc,      \* reference setup: "off", "idle", "loop", "done", "failed"
  refTodo,    \* reference setup: the indices of DIRECTORY_MAPPING not yet visited
  calculations, \* reference setup: directory name -> the files it holds
  setups,     \* reference setup: the counters successful_setups and failed_setups
  dipolArgs,  \* DIPOL update: the new value, force, and the parameter file as first found
  incar,      \* DIPOL update: the text of the parameter file, None when it does not exist
  incarOnce,  \* DIPOL update: the text after the first application, None before
  applied     \* DIPOL update: the number of calls of update_incar_dipol so far

aggVars == <<fs, aggPc, calc_dirs, results, visited, summary, exported, report, exportErrors>>

parserVars == <<doc, etype, aggOut, asmOut>>

asmVars == <<asmPc, args, energies, metadata, disk, loaded, banner, exitStatus>>

tableVars == <<userCsv>>

refVars == <<refArgs, refPc, refTodo, calculations, setups>>

dipolVars == <<dipolArgs, incar, incarOnce, applied>>

extVars == <<tableVars, refVars, dipolVars>>

vars == <<doc, etype, aggOut, asmOut, fs, aggPc, calc_dirs, results, visited, summary,
          exported, report, asmPc, args, energies, metadata, disk, loaded, banner, exitStatus,
          exportErrors, userCsv, refArgs, refPc, refTodo, calculations, setups,
          dipolArgs, incar, incarOnce, applied>>

\* ------------------------------------------------------------ Log Parser
ParserIdle ==
  /\ doc = MissingDoc /\ etype = "sigma0" /\ aggOut = None /\ asmOut = None

\* extract_energy_from_outcar of 4_extract_energies.py applied to the document
ParseAgg ==
  /\ aggOut = None
  /\ aggPc = "parser"
  /\ aggOut' = Some(AggExtract(doc))
  /\ UNCHANGED <<doc, etype, asmOut>>
  /\ UNCHANGED aggVars
  /\ UNCHANGED asmVars
  /\ UNCHANGED extVars

\* extract_energy_from_outcar of 5_create_npy.py applied to the document
ParseAsm ==
  /\ asmOut = None
  /\ aggPc = "parser"
  /\ asmOut' = Some(AsmExtract(doc, etype))
  /\ UNCHANGED <<doc, etype, aggOut>>
  /\ UNCHANGED aggVars
  /\ UNCHANGED asmVars
  /\ UNCHANGED extVars

\* ------------------------------------------------------------ Aggregator
\* the status, were it to require the convergence marker as well
AggStatus_NeedsConvergence(energy_info) ==
  IF energy_info.energy_without_entropy # None /\ energy_info.converged THEN "Success" ELSE "Failed"

\* 'Success' if energy_info['energy_without_entropy'] is not None else 'Failed'
AggStatus(energy_info) ==
  IF energy_info.energy_without_entropy # None THEN "Success" ELSE "Failed"

\* the result dictionary of one run (main, lines 99-117)
AggRecord(calc_name, energy_info) ==
  [Calculation |-> calc_name,
   Index |-> ParseIndex(calc_name),
   Energy_without_entropy_eV |-> energy_info.energy_without_entropy,
   Energy_sigma_0_eV |-> energy_info.energy_sigma_0,
   Converged |-> energy_info.converged,
   Electronic_steps |-> energy_info.electronic_steps,
   Ionic_steps |-> energy_info.ionic_steps,
   CPU_time_sec |-> energy_info.total_cpu_time,
   Status |-> AggStatus(energy_info),
   Error |-> energy_info.error]

\* [d for d in base_dir.iterdir() if d.is_dir() and d.name.startswith('calc_')]
SelectedDirs(f) == {n \in DOMAIN f : f[n].isdir /\ StartsWithCalc(n)}

NoExports == [xlsx |-> None, csv |-> None, summary_csv |-> None]

Permutations1(n) == {f \in [1..n -> 1..n] : \A i, j \in 1..n : f[i] = f[j] => i = j}

\* base_dir.iterdir(): the entries in an arbitrary order
IterDir(f) ==
  LET names == SortedNames(DOMAIN f)
  IN {[i \in 1..Len(names) |-> names[order[i]]] : order \in Permutations1(Len(names))}

RECURSIVE InsertSorted(_, _)
InsertSorted(name, sorted) ==
  IF sorted = <<>> THEN <<name>>
  ELSE IF LexLess(name, Head(sorted)) THEN <<name>> \o sorted
  ELSE <<Head(sorted)>> \o InsertSorted(name, Tail(sorted))

\* sorted(list)
RECURSIVE SortedList(_)
SortedList(listing) ==
  IF listing = <<>> THEN <<>> ELSE InsertSorted(Head(listing), SortedList(Tail(listing)))

\* the selected directories, were they processed in the order of the enumeration
CalcDirs_AsEnumerated(f, listing) ==
  LET selected(n) == f[n].isdir /\ StartsWithCalc(n)
  IN SelectSeq(listing, selected)

\* calc_dirs = sorted([d for d in base_dir.iterdir() if d.is_dir() and ...])
CalcDirs(f, listing) ==
  LET selected(n) == f[n].isdir /\ StartsWithCalc(n)
  IN SortedList(SelectSeq(listing, selected))

AggIdle ==
  /\ calc_dirs = <<>> /\ results = <<>> /\ visited = <<>>
  /\ summary = None /\ exported = NoExports /\ report = None /\ exportErrors = <<>>

\* main, lines 75-87: discover the calculation directories
AggStart ==
  /\ aggPc = "idle"
  /\ asmPc = "idle"
  /\ aggPc' = "scan"
  /\ \E listing \in IterDir(fs) : calc_dirs' = CalcDirs(fs, listing)
  /\ UNCHANGED <<fs, results, visited, summary, exported, report, exportErrors>>
  /\ UNCHANGED parserVars
  /\ UNCHANGED asmVars
  /\ UNCHANGED extVars

\* main, lines 90-125: one iteration of the loop over calc_dirs
AggProcess ==
  /\ aggPc = "scan"
  /\ calc_dirs # <<>>
  /\ LET calc_name == Head(calc_dirs)
         energy_info == AggExtract(fs[calc_name].doc)
     IN /\ results' = Append(results, AggRecord(calc_name, energy_info))
        /\ visited' = Append(visited, calc_name)
  /\ calc_dirs' = Tail(calc_dirs)
  /\ UNCHANGED <<fs, aggPc, summary, exported, report, exportErrors>>
  /\ UNCHANGED parserVars
  /\ UNCHANGED asmVars
  /\ UNCHANGED extVars

IsSuccess(row) == row.Status = "Success"

IsFailed(row) == row.Status = "Failed"

\* main, lines 127-156: the DataFrame and the summary statistics.  A DataFrame
\* built from no record has no column: df['Status'] raises KeyError.
AggSummarize ==
  /\ aggPc = "scan"
  /\ calc_dirs = <<>>
  /\ IF results = <<>>
     THEN /\ aggPc' = "crashed"
          /\ summary' = summary
     ELSE /\ aggPc' = "export"
          /\ summary' = Some([total |-> Len(results),
                              successful |-> Len(SelectSeq(results, IsSuccess)),
                              failed |-> Len(SelectSeq(results, IsFailed))])
  /\ UNCHANGED <<fs, calc_dirs, results, visited, exported, report, exportErrors>>
  /\ UNCHANGED parserVars
  /\ UNCHANGED asmVars
  /\ UNCHANGED extVars

\* an exception raised while one artifact was written
WriteError(artifact, error) == [artifact |-> artifact, error |-> error]

\* main, lines 158-211: the Excel workbook, or the CSV files when the Excel
\* writer raises ImportError; any other exception is not handled.
AggExport ==
  /\ aggPc = "export"
  /\ \E outcome \in {"excel", "ImportError", "OtherError"}, csvWritten \in BOOLEAN :
       LET successful_calcs == SelectSeq(results, IsSuccess)
           failed_calcs == SelectSeq(results, IsFailed)
       IN CASE outcome = "excel" ->
                 /\ exported' = [exported EXCEPT !.xlsx =
                      Some([All_Energies |-> results,
                            Summary |-> IF Len(successful_calcs) > 0 THEN Some(summary[1]) ELSE None,
                            Failed_Calculations |->
                              IF Len(failed_calcs) > 0 THEN Some(failed_calcs) ELSE None])]
                 /\ exportErrors' = exportErrors
                 /\ aggPc' = "report"
            [] outcome = "ImportError" /\ csvWritten ->
                 /\ exported' = [exported EXCEPT
                      !.csv = Some(results),
                      !.summary_csv = IF Len(successful_calcs) > 0 THEN Some(summary[1]) ELSE None]
                 /\ exportErrors' = Append(exportErrors, WriteError("xlsx", "ImportError"))
                 /\ aggPc' = "report"
            [] outcome = "ImportError" /\ ~csvWritten ->
                 /\ exported' = exported
                 /\ exportErrors' = exportErrors \o <<WriteError("xlsx", "ImportError"),
                                                       WriteError("csv", "OtherError")>>
                 /\ aggPc' = "crashed"
            [] OTHER ->
                 /\ exported' = exported
                 /\ exportErrors' = Append(exportErrors, WriteError("xlsx", "OtherError"))
                 /\ aggPc' = "crashed"
  /\ UNCHANGED <<fs, calc_dirs, results, visited, summary, report>>
  /\ UNCHANGED parserVars
  /\ UNCHANGED asmVars
  /\ UNCHANGED extVars

\* the not-converged filter, were it to leave out the status
IsNotConverged_AnyStatus(row) == ~row.Converged

\* df[~df['Converged'] & (df['Status'] == 'Success')]
IsNotConverged(row) == ~row.Converged /\ row.Status = "Success"

RECURSIVE NamesOf(_)
NamesOf(rows) == IF rows = <<>> THEN <<>> ELSE <<Head(rows).Calculation>> \o NamesOf(Tail(rows))

\* main, lines 213-232: the failed and the not-converged lists, then the banner
AggReport ==
  /\ aggPc = "report"
  /\ report' = Some([failed |-> NamesOf(SelectSeq(results, IsFailed)),
                     not_converged |-> NamesOf(SelectSeq(results, IsNotConverged))])
  /\ aggPc' = "done"
  /\ UNCHANGED <<fs, calc_dirs, results, visited, summary, exported, exportErrors>>
  /\ UNCHANGED parserVars
  /\ UNCHANGED asmVars
  /\ UNCHANGED extVars

\* ------------------------------------------------- Indexed Array Assembler
\* The flat table as read back by pd.read_csv: an empty cell is a missing
\* value (None), an integer identifier comes back as the same number.
CsvColumns ==
  {"Calculation", "Index", "Energy_without_entropy_eV", "Energy_sigma_0_eV", "Converged",
   "Electronic_steps", "Ionic_steps", "CPU_time_sec", "Status", "Error"}

ReadCsv(rows) == [columns |-> CsvColumns, rows |-> rows]

\* the precedence list in the opposite order
EnergyColumnPrecedence_Reversed == <<"Energy_sigma_0_eV", "Energy_without_entropy_eV", "Energy_eV">>

\* for col in ['Energy_eV', 'Energy_without_entropy_eV', 'Energy_sigma_0_eV']
EnergyColumnPrecedence == <<"Energy_eV", "Energy_without_entropy_eV", "Energy_sigma_0_eV">>

\* for col in [...]: if col in df.columns: energy_col = col; break
RECURSIVE FirstPresent(_, _)
FirstPresent(names, columns) ==
  IF names = <<>> THEN None
  ELSE IF Head(names) \in columns THEN Some(Head(names))
  ELSE FirstPresent(Tail(names), columns)

ResolveEnergyColumn(columns) == FirstPresent(EnergyColumnPrecedence, columns)

\* np.full(n, fill_value); a negative n raises ValueError (None here)
NpFull(n, fill_value) ==
  IF n < 0 THEN None ELSE Some([i \in 1..n |-> fill_value])

\* energies[idx] = value with Python indexing: position idx for 0 <= idx < len,
\* position len + idx for -len <= idx < 0, IndexError (None here) otherwise.
SetItem(arr, idx, value) ==
  LET n == Len(arr)
  IN IF 0 <= idx /\ idx < n THEN Some([arr EXCEPT ![idx + 1] = value])
     ELSE IF 0 - n <= idx /\ idx < 0 THEN Some([arr EXCEPT ![n + idx + 1] = value])
     ELSE None

Max(S) == CHOOSE x \in S : \A y \in S : y <= x

Min(S) == CHOOSE x \in S : \A y \in S : x <= y

\* The row orders df.sort_values('Index') may produce: ascending identifier,
\* missing identifiers last, rows of equal identifier in any order.
SortedOrders(rows) ==
  LET key(r) == IF r.Index = None THEN 1000000 ELSE r.Index[1]
  IN {[i \in 1..Len(rows) |-> rows[f[i]]] : f \in
        {g \in Permutations1(Len(rows)) :
           \A i, j \in 1..Len(rows) : i < j => key(rows[g[i]]) <= key(rows[g[j]])}}

\* for _, row in df.iterrows(): if notna(Index) and notna(energy): energies[idx] = energy
RECURSIVE FillFromRows(_, _, _)
FillFromRows(arr, rows, energy_col) ==
  IF rows = <<>> THEN Some(arr)
  ELSE LET row == Head(rows)
       IN IF row.Index # None /\ row[energy_col] # None
          THEN LET next == SetItem(arr, row.Index[1], row[energy_col][1])
               IN IF next = None THEN None ELSE FillFromRows(next[1], Tail(rows), energy_col)
          ELSE FillFromRows(arr, Tail(rows), energy_col)

IsNumber(x) == ~x.nan

ValuesOf(arr) == {arr[i].v : i \in 1..Len(arr)}

\* min_energy and max_energy of the metadata (mean and std are not modelled)
EnergyRange(valid_energies) ==
  [min_energy |-> IF Len(valid_energies) > 0 THEN Some(Min(ValuesOf(valid_energies))) ELSE None,
   max_energy |-> IF Len(valid_energies) > 0 THEN Some(Max(ValuesOf(valid_energies))) ELSE None]

\* metadata of create_energies_array_from_csv, lines 162-174
CsvMetadata(arr) ==
  LET valid_energies == SelectSeq(arr, IsNumber)
  IN [total_calculations |-> Len(arr),
      successful_extractions |-> Len(valid_energies),
      failed_extractions |-> Len(arr) - Len(valid_energies),
      min_energy |-> EnergyRange(valid_energies).min_energy,
      max_energy |-> EnergyRange(valid_energies).max_energy,
      source |-> "csv"]

Raised == [ok |-> FALSE, energies |-> <<>>, metadata |-> None]

Returned(arr, meta) == [ok |-> TRUE, energies |-> arr, metadata |-> Some(meta)]

\* create_energies_array_from_csv(csv_file, fill_value); sorted is df after sort_values
CreateFromCsv(table, sorted, fill_value) ==
  LET energy_col == ResolveEnergyColumn(table.columns)
      indexed == "Index" \in table.columns /\ \E i \in 1..Len(table.rows) : table.rows[i].Index # None
      max_index == Max({table.rows[i].Index[1] : i \in {j \in 1..Len(table.rows) : table.rows[j].Index # None}})
      blank == NpFull(max_index + 1, fill_value)
      filled == FillFromRows(blank[1], sorted, energy_col[1])
      inOrder == [i \in 1..Len(table.rows) |->
                    IF table.rows[i][energy_col[1]] = None THEN fill_value
                    ELSE table.rows[i][energy_col[1]][1]]
  IN IF energy_col = None THEN Raised
     ELSE IF indexed
          THEN IF blank = None \/ filled = None THEN Raised
               ELSE Returned(filled[1], CsvMetadata(filled[1]))
          ELSE Returned(inOrder, CsvMetadata(inOrder))

\* calc_data of create_energies_array_direct, lines 204-219, for a listing
RECURSIVE CalcData(_, _, _)
CalcData(listing, f, energy_type) ==
  IF listing = <<>> THEN <<>>
  ELSE LET calc_name == Head(listing)
           index == ParseIndex(calc_name)
           rest == CalcData(Tail(listing), f, energy_type)
       IN IF index = None THEN rest
          ELSE <<[index |-> index[1], energy |-> AsmExtract(f[calc_name].doc, energy_type)]>> \o rest

\* calc_data.sort(key=lambda x: x[0]): a stable sort
RECURSIVE SortByIndex(_)
SortByIndex(data) ==
  IF data = <<>> THEN <<>>
  ELSE LET low == Min({data[i].index : i \in 1..Len(data)})
           first == Min({i \in 1..Len(data) : data[i].index = low})
       IN <<data[first]>> \o SortByIndex(Take(data, first - 1) \o Drop(data, first))

\* for index, energy in calc_data: if energy is not None: energies[index] = energy; successful += 1
RECURSIVE FillFromData(_, _, _)
FillFromData(arr, data, successful) ==
  IF data = <<>> THEN Some([energies |-> arr, successful |-> successful])
  ELSE IF Head(data).energy # None
       THEN LET next == SetItem(arr, Head(data).index, Head(data).energy[1])
            IN IF next = None THEN None ELSE FillFromData(next[1], Tail(data), successful + 1)
       ELSE FillFromData(arr, Tail(data), successful)

\* metadata of create_energies_array_direct, lines 238-250
DirectMetadata(arr, successful) ==
  LET valid_energies == SelectSeq(arr, IsNumber)
  IN [total_calculations |-> Len(arr),
      successful_extractions |-> successful,
      failed_extractions |-> Len(arr) - successful,
      min_energy |-> EnergyRange(valid_energies).min_energy,
      max_energy |-> EnergyRange(valid_energies).max_energy,
      source |-> "direct_extraction"]

\* create_energies_array_direct(calc_dir, energy_type, fill_value); listing is
\* the order in which os.listdir returns the entries
CreateDirect(f, listing, energy_type, fill_value) ==
  LET IsCalcDir(n) == f[n].isdir /\ StartsWithCalc(n)
      dirs == SelectSeq(listing, IsCalcDir)
      calc_data == SortByIndex(CalcData(dirs, f, energy_type))
      max_index == Max({calc_data[i].index : i \in 1..Len(calc_data)})
      blank == NpFull(max_index + 1, fill_value)
      filled == FillFromData(blank[1], calc_data, 0)
  IN IF dirs = <<>> THEN Raised
     ELSE IF calc_data = <<>> THEN Returned(<<>>, DirectMetadata(<<>>, 0))
     ELSE IF blank = None \/ filled = None THEN Raised
     ELSE Returned(filled[1].energies, DirectMetadata(filled[1].energies, filled[1].successful))

FillValues == {NaN, Num(0 - 999000)}

\* Output file names, as the sequence of their parts; ".npy" occurs only as a part.
OutputNames == {<<"energies", ".npy">>, <<"energies">>, <<"pes", ".npy", ".bak">>}

\* np.save(file, arr) appends '.npy' to a file name that does not end with it
SavePath(output_path) ==
  IF Last(output_path) = ".npy" THEN output_path ELSE Append(output_path, ".npy")

\* output_path.replace('.npy', '_metadata.txt')
MetadataPath(output_path) ==
  [i \in 1..Len(output_path) |-> IF output_path[i] = ".npy" THEN "_metadata.txt" ELSE output_path[i]]

NpyFile(arr) == [kind |-> "npy", data |-> arr]

TextFile == [kind |-> "text", data |-> <<>>]

\* What may happen to the stored bytes between np.save and np.load.
StorageFaults == {"none", "flip"}

Damaged(fault, arr) ==
  IF arr = <<>> \/ fault = "none" THEN arr
  ELSE [arr EXCEPT ![1] = IF arr[1].nan THEN Num(0) ELSE NaN]

\* np.load(output_path): raises when the file is missing or is not an array file
NpLoad(files, output_path, fault) ==
  IF output_path \notin DOMAIN files \/ files[output_path].kind # "npy"
  THEN [ok |-> FALSE, data |-> <<>>]
  ELSE [ok |-> TRUE, data |-> Damaged(fault, files[output_path].data)]

\* np.array_equal(a, b, equal_nan=True)
ArrayEqualNan(a, b) ==
  /\ Len(a) = Len(b)
  /\ \A i \in 1..Len(a) : \/ a[i].nan /\ b[i].nan
                          \/ ~a[i].nan /\ ~b[i].nan /\ a[i].v = b[i].v

\* the verification, were it to accept any array that loads
VerifyPasses_NoCompare(inMemory, outcome) == outcome.ok

\* the verification of main, lines 359-368: TRUE when the run may go on
VerifyPasses(inMemory, outcome) ==
  outcome.ok /\ ArrayEqualNan(inMemory, outcome.data)

NoArgs == [energy_type |-> "sigma0", fill_value |-> NaN, output_name |-> <<>>, source |-> "none"]

AsmIdle ==
  /\ args = NoArgs /\ energies = None /\ metadata = None /\ disk = <<>>
  /\ loaded = None /\ banner = FALSE /\ exitStatus = None

\* the outcome of one of the two create functions, taken up by main (lines 314-338, 393-395)
AsmTakeUp(outcome, energy_type, fill_value, source) ==
  /\ args' = [NoArgs EXCEPT !.energy_type = energy_type, !.fill_value = fill_value,
                            !.source = source]
  /\ IF outcome.ok
     THEN /\ energies' = Some(outcome.energies)
          /\ metadata' = outcome.metadata
          /\ asmPc' = "created"
          /\ exitStatus' = exitStatus
     ELSE /\ energies' = energies
          /\ metadata' = metadata
          /\ asmPc' = "done"
          /\ exitStatus' = Some(1)
  /\ UNCHANGED <<disk, loaded, banner>>
  /\ UNCHANGED parserVars
  /\ UNCHANGED aggVars
  /\ UNCHANGED extVars

\* main with a CSV file (--csv-file, or the latest one found): table mode
AsmCreateFromCsv ==
  /\ asmPc = "idle"
  /\ aggPc \in {"done", "crashed"}
  /\ exported.csv # None
  /\ \E energy_type \in EnergyTypes, fill_value \in FillValues,
        sorted \in SortedOrders(exported.csv[1]) :
       AsmTakeUp(CreateFromCsv(ReadCsv(exported.csv[1]), sorted, fill_value),
                 energy_type, fill_value, "csv")

\* main without a CSV file: direct-extraction mode.  It reads the run
\* directories only, so it is started here before the Aggregator has run.
AsmCreateDirect ==
  /\ asmPc = "idle"
  /\ aggPc = "idle"
  /\ \E energy_type \in EnergyTypes, fill_value \in FillValues,
        order \in Permutations1(Cardinality(DOMAIN fs)) :
       LET names == SortedNames(DOMAIN fs)
           listing == [i \in 1..Len(names) |-> names[order[i]]]
       IN AsmTakeUp(CreateDirect(fs, listing, energy_type, fill_value),
                    energy_type, fill_value, "direct")

\* main, lines 340-344: np.save
AsmSave ==
  /\ asmPc = "created"
  /\ \E output_name \in OutputNames :
       /\ args' = [args EXCEPT !.output_name = output_name]
       /\ disk' = (SavePath(output_name) :> NpyFile(energies[1])) @@ disk
  /\ asmPc' = "saved"
  /\ UNCHANGED <<energies, metadata, loaded, banner, exitStatus>>
  /\ UNCHANGED parserVars
  /\ UNCHANGED aggVars
  /\ UNCHANGED extVars

\* main, lines 346-354: the metadata sidecar
AsmSaveMetadata ==
  /\ asmPc = "saved"
  /\ disk' = (MetadataPath(args.output_name) :> TextFile) @@ disk
  /\ asmPc' = "described"
  /\ UNCHANGED <<args, energies, metadata, loaded, banner, exitStatus>>
  /\ UNCHANGED parserVars
  /\ UNCHANGED aggVars
  /\ UNCHANGED extVars

\* main, lines 356-368: re-load and compare, exit 1 on a difference or an error
AsmVerify ==
  /\ asmPc = "described"
  /\ \E fault \in StorageFaults :
       LET outcome == NpLoad(disk, args.output_name, fault)
       IN /\ loaded' = Some(outcome)
          /\ IF VerifyPasses(energies[1], outcome)
             THEN /\ asmPc' = "verified"
                  /\ exitStatus' = exitStatus
             ELSE /\ asmPc' = "done"
                  /\ exitStatus' = Some(1)
  /\ UNCHANGED <<args, energies, metadata, disk, banner>>
  /\ UNCHANGED parserVars
  /\ UNCHANGED aggVars
  /\ UNCHANGED extVars

\* main, lines 370-391: sample data, usage examples and the completion banner
AsmFinish ==
  /\ asmPc = "verified"
  /\ banner' = TRUE
  /\ exitStatus' = Some(0)
  /\ asmPc' = "done"
  /\ UNCHANGED <<args, energies, metadata, disk, loaded>>
  /\ UNCHANGED parserVars
  /\ UNCHANGED aggVars
  /\ UNCHANGED extVars

\* ------------------------------------------- table mode on a supplied table
MaxRows == 2

EnergyColumns == {"Energy_eV", "Energy_without_entropy_eV", "Energy_sigma_0_eV"}

\* The number a supplied table holds in a column (one number per column, so
\* that the column a value was read from shows in the value).
ColumnValue(col) ==
  CASE col = "Energy_eV" -> Num(0 - 10500)
    [] col = "Energy_without_entropy_eV" -> Num(0 - 12345)
    [] col = "Energy_sigma_0_eV" -> Num(0 - 9250)

\* the identifiers a row may hold; None is an empty cell
IndexCells == {None, Some(0 - 1), Some(0), Some(2)}

\* the energy cells a row may have filled: all of them, all but the one of
\* the column that comes first in the precedence list, or none
FilledCells(columns) ==
  LET present == columns \cap EnergyColumns
      first == ResolveEnergyColumn(columns)
  IN {present, present \ (IF first = None THEN {} ELSE {first[1]}), {}}

\* the rows of a table with these columns: an identifier cell, and the energy
\* columns in filled each holding its number, the other ones empty
RowsOf(columns) ==
  {[c \in columns |-> IF c = "Index" THEN ix
                      ELSE IF c \in filled THEN Some(ColumnValue(c)) ELSE None] :
     ix \in IndexCells, filled \in FilledCells(columns)}

\* the tables pd.read_csv may return for a file given with --csv-file
UserTables ==
  {[columns |-> cols, rows |-> rows] :
     cols \in SUBSET ({"Index"} \cup EnergyColumns), rows \in {<<>>}} \cup
  UNION {{[columns |-> cols, rows |-> rows] : rows \in SeqsUpTo(RowsOf(cols), MaxRows)} :
         cols \in (SUBSET ({"Index"} \cup EnergyColumns)) \ {{}}}

TableIdle == userCsv = None

\* main with --csv-file naming a table this scan did not write
AsmCreateFromUserCsv ==
  /\ asmPc = "idle"
  /\ userCsv # None
  /\ \E energy_type \in EnergyTypes, fill_value \in FillValues,
        sorted \in (IF "Index" \in userCsv[1].columns THEN SortedOrders(userCsv[1].rows)
                    ELSE {userCsv[1].rows}) :
       AsmTakeUp(CreateFromCsv(userCsv[1], sorted, fill_value), energy_type, fill_value, "csv")

\* ------------------------------------------------- reference scaffolding
\* the mapping, were its first two entries exchanged
DIRECTORY_MAPPING_Exchanged ==
  (0 :> "E2_substrate") @@ (1 :> "E1_film") @@ (2 :> "E3_film_double_slab")
    @@ (3 :> "E4_substrate_double_slab")

\* DIRECTORY_MAPPING = {0: 'E1_film', 1: 'E2_substrate', ...}
DIRECTORY_MAPPING ==
  (0 :> "E1_film") @@ (1 :> "E2_substrate") @@ (2 :> "E3_film_double_slab")
    @@ (3 :> "E4_substrate_double_slab")

REFERENCE_FILES ==
  [E1_film |-> "POSCAR_film_slab",
   E2_substrate |-> "POSCAR_sub_slab",
   E3_film_double_slab |-> "POSCAR_film_double_slab",
   E4_substrate_double_slab |-> "POSCAR_sub_double_slab"]

\* for index, key in DIRECTORY_MAPPING.items(): the keys in insertion order
MappingOrder == <<0, 1, 2, 3>>

DigitChar(d) == CHOOSE c \in Digits : DigitVal(c) = d

\* str(n) for n >= 0
RECURSIVE DecimalText(_)
DecimalText(n) ==
  IF n < 10 THEN <<DigitChar(n)>> ELSE DecimalText(n \div 10) \o <<DigitChar(n % 10)>>

\* f"{n:04d}" for n >= 0: zeros on the left up to four characters
RECURSIVE ZeroPad(_, _)
ZeroPad(text, width) == IF Len(text) >= width THEN text ELSE ZeroPad(<<"0">> \o text, width)

\* calc_name = f"calc_{index:04d}"
FormatCalcName(index) == CalcPrefix \o ZeroPad(DecimalText(index), 4)

\* what the validation of lines 98-115 may find missing
RefProblems == {"none", "reference_dir", "poscars_dir", "templates_dir", "template_file"}

RefInputs ==
  {[missing |-> m, poscars |-> ps, dry_run |-> dr] :
     m \in RefProblems,
     ps \in SUBSET {REFERENCE_FILES[k] : k \in DOMAIN REFERENCE_FILES},
     dr \in BOOLEAN}

NoRefArgs == [missing |-> "none", poscars |-> {}, dry_run |-> FALSE]

NoCalculations == [n \in {} |-> [POSCAR |-> ""]]

RefIdle ==
  /\ refArgs = NoRefArgs /\ refPc = "off" /\ refTodo = <<>>
  /\ calculations = NoCalculations /\ setups = [successful |-> 0, failed |-> 0]

\* setup_reference_calculations, lines 98-130: the validations raise, main exits 1
RefValidate ==
  /\ refPc = "idle"
  /\ IF refArgs.missing # "none"
     THEN /\ refPc' = "failed"
          /\ refTodo' = refTodo
     ELSE /\ refPc' = "loop"
          /\ refTodo' = MappingOrder
  /\ UNCHANGED <<refArgs, calculations, setups>>
  /\ UNCHANGED <<parserVars, aggVars, asmVars, tableVars, dipolVars>>

\* the files copied into one calculation directory (lines 151-170)
CalcFiles(poscar_filename) ==
  [POSCAR |-> poscar_filename, POTCAR |-> "POTCAR", KPOINTS |-> "KPOINTS_template",
   INCAR |-> "INCAR_template", job |-> "job_template.slurm"]

\* setup_reference_calculations, lines 132-172: one iteration of the loop
RefSetupOne ==
  /\ refPc = "loop"
  /\ refTodo # <<>>
  /\ LET index == Head(refTodo)
         key == DIRECTORY_MAPPING[index]
         calc_name == FormatCalcName(index)
         poscar_filename == REFERENCE_FILES[key]
     IN IF poscar_filename \notin refArgs.poscars
        THEN /\ setups' = [setups EXCEPT !.failed = @ + 1]
             /\ calculations' = calculations
        ELSE /\ setups' = [setups EXCEPT !.successful = @ + 1]
             /\ calculations' = IF refArgs.dry_run THEN calculations
                                ELSE (calc_name :> CalcFiles(poscar_filename)) @@ calculations
  /\ refTodo' = Tail(refTodo)
  /\ UNCHANGED <<refArgs, refPc>>
  /\ UNCHANGED <<parserVars, aggVars, asmVars, tableVars, dipolVars>>

\* setup_reference_calculations, lines 174-177: the counters are returned
RefFinish ==
  /\ refPc = "loop"
  /\ refTodo = <<>>
  /\ refPc' = "done"
  /\ UNCHANGED <<refArgs, refTodo, calculations, setups>>
  /\ UNCHANGED <<parserVars, aggVars, asmVars, tableVars, dipolVars>>

\* ------------------------------------------------------------ DIPOL update
\* The text of a parameter file is a sequence of pieces: the pieces below, each
\* standing for the characters it shows.  Only "#" holds the character '#', and
\* only " " and "\n" are white space.
MaxLines == 2

MaxUpdates == 2

DipolKey == "DIPOL ="

DefaultComment ==
  <<" ", " ", " ", "#",
    " Defining the location of the center of the dipole moment (center of mass)">>

WhiteSpace == {" ", "\n"}

DipolValues == {"0.50000 0.50000 0.50000", "0.10000 0.20000 0.30000"}

\* the lines a parameter file is made of, each with its line end
IncarLines ==
  {<<"ENCUT = 400", "\n">>,
   <<"IDIPOL = 3", "\n">>,
   <<"\n">>,
   <<DipolKey, " ", "PLACEHOLDER", " ", "#", " center", "\n">>,
   <<DipolKey, " ", "0.10000 0.20000 0.30000", "\n">>,
   <<" ", DipolKey, " ", "0.50000 0.50000 0.50000", " ", "\n">>,
   <<"#", DipolKey, " ", "0.10000 0.20000 0.30000", "\n">>}

RECURSIVE Concat(_)
Concat(lines) == IF lines = <<>> THEN <<>> ELSE Head(lines) \o Concat(Tail(lines))

\* the texts of the parameter file: some lines, the last one with or without its line end
IncarTexts ==
  LET whole == {Concat(ls) : ls \in SeqsUpTo(IncarLines, MaxLines)}
  IN whole \cup {Take(t, Len(t) - 1) : t \in whole \ {<<>>}}

\* f.readlines(): the lines of the text, each with its "\n" when it has one
RECURSIVE ReadLines(_)
ReadLines(text) ==
  IF text = <<>> THEN <<>>
  ELSE LET n == SpanLen(text, {c \in {text[i] : i \in 1..Len(text)} : c # "\n"})
       IN IF n = Len(text) THEN <<text>>
          ELSE <<Take(text, n + 1)>> \o ReadLines(Drop(text, n + 1))

\* line.strip()
RECURSIVE RStrip(_)
RStrip(line) ==
  IF line # <<>> /\ Last(line) \in WhiteSpace THEN RStrip(Take(line, Len(line) - 1)) ELSE line

Strip(line) == RStrip(Drop(line, SpanLen(line, WhiteSpace)))

\* line.strip().startswith("DIPOL =") and not line.strip().startswith("#")
IsDipolLine(line) == Strip(line) # <<>> /\ Head(Strip(line)) = DipolKey

\* line[line.index('#'):] if '#' in line, else the default comment
CommentPart(line) ==
  LET before == SpanLen(line, {c \in {line[i] : i \in 1..Len(line)} : c # "#"})
  IN IF before < Len(line) THEN Drop(line, before) ELSE DefaultComment

\* line.split('=')[1].split('#')[0].strip(): the text after the key up to the comment
OldDipol(line) ==
  LET afterKey == Drop(line, SpanLen(line, {c \in {line[i] : i \in 1..Len(line)} : c # DipolKey}) + 1)
  IN Strip(Take(afterKey, SpanLen(afterKey, {c \in {line[i] : i \in 1..Len(line)} : c # "#"})))

\* f"DIPOL = {dipol_value}   {comment_part}\n"
DipolLine(dipol_value, comment_part) ==
  <<DipolKey, " ", dipol_value, " ", " ", " ">> \o comment_part \o <<"\n">>

\* the index of the first DIPOL line, 0 when there is none
FirstDipolLine(lines) ==
  IF \E i \in 1..Len(lines) : IsDipolLine(lines[i])
  THEN Min({i \in 1..Len(lines) : IsDipolLine(lines[i])}) ELSE 0

\* the prompt of lines 101-107 is shown
AsksBeforeUpdate(line, force) ==
  ~force /\ OldDipol(line) # <<>> /\ "PLACEHOLDER" \notin {OldDipol(line)[i] : i \in 1..Len(OldDipol(line))}

\* update_incar_dipol(incar_path, dipol_value, force), lines 85-127, on the
\* text of the file: the text written back (the lines found, with the first
\* DIPOL line replaced or a DIPOL line added at the end)
UpdatedText(text, dipol_value) ==
  LET lines == ReadLines(text)
      i == FirstDipolLine(lines)
  IN IF i = 0
     THEN Concat(Append(lines, DipolLine(dipol_value, Tail(Tail(Tail(DefaultComment))))))
     ELSE Concat([lines EXCEPT ![i] = DipolLine(dipol_value, CommentPart(lines[i]))])

NoDipolArgs == [dipol_value |-> "", force |-> FALSE, original |-> None]

DipolIdle ==
  /\ dipolArgs = NoDipolArgs /\ incar = None /\ incarOnce = None /\ applied = 0

\* one call of update_incar_dipol; without the file open() raises and the call
\* returns False, as it does when the user declines the prompt
DipolUpdate ==
  /\ dipolArgs # NoDipolArgs
  /\ applied < MaxUpdates
  /\ applied' = applied + 1
  /\ \E response \in {"y", "n"} :
       LET lines == ReadLines(incar[1])
           i == FirstDipolLine(lines)
           declined == i # 0 /\ AsksBeforeUpdate(lines[i], dipolArgs.force) /\ response = "n"
       IN IF incar = None \/ declined
          THEN incar' = incar
          ELSE incar' = Some(UpdatedText(incar[1], dipolArgs.dipol_value))
  /\ incarOnce' = IF applied = 0 THEN incar' ELSE incarOnce
  /\ UNCHANGED dipolArgs
  /\ UNCHANGED <<parserVars, aggVars, asmVars, tableVars, refVars>>

\* ----------------------------------------------------------- specifications
Init ==
  /\ fs \in FileSystems
  /\ aggPc = "idle"
  /\ asmPc = "idle"
  /\ AggIdle
  /\ AsmIdle
  /\ ParserIdle
  /\ TableIdle
  /\ RefIdle
  /\ DipolIdle

Next ==
  \/ AggStart
  \/ AggProcess
  \/ AggSummarize
  \/ AggExport
  \/ AggReport
  \/ AsmCreateFromCsv
  \/ AsmCreateDirect
  \/ AsmSave
  \/ AsmSaveMetadata
  \/ AsmVerify
  \/ AsmFinish

Spec == Init /\ [][Next]_vars

\* The two parsers applied to one document.
ParserInit ==
  /\ doc \in ParserDocs
  /\ etype \in EnergyTypes
  /\ aggOut = None
  /\ asmOut = None
  /\ fs = EmptyFs
  /\ aggPc = "parser"
  /\ asmPc = "parser"
  /\ AggIdle
  /\ AsmIdle
  /\ TableIdle
  /\ RefIdle
  /\ DipolIdle

ParserNext ==
  \/ ParseAgg
  \/ ParseAsm

SpecParser == ParserInit /\ [][ParserNext]_vars

\* Table mode on a table supplied with --csv-file.
TableInit ==
  /\ userCsv \in {Some(t) : t \in UserTables}
  /\ fs = EmptyFs
  /\ aggPc = "idle"
  /\ asmPc = "idle"
  /\ AggIdle
  /\ AsmIdle
  /\ ParserIdle
  /\ RefIdle
  /\ DipolIdle

TableNext == AsmCreateFromUserCsv

SpecTable == TableInit /\ [][TableNext]_vars

\* One invocation of setup_reference_folders.py on a fresh calculations directory.
RefInit ==
  /\ refArgs \in RefInputs
  /\ refPc = "idle"
  /\ refTodo = <<>>
  /\ calculations = NoCalculations
  /\ setups = [successful |-> 0, failed |-> 0]
  /\ fs = EmptyFs
  /\ aggPc = "idle"
  /\ asmPc = "idle"
  /\ AggIdle
  /\ AsmIdle
  /\ ParserIdle
  /\ TableIdle
  /\ DipolIdle

RefNext ==
  \/ RefValidate
  \/ RefSetupOne
  \/ RefFinish

SpecRef == RefInit /\ [][RefNext]_vars

\* Repeated calls of update_incar_dipol on one parameter file with one value.
DipolInit ==
  /\ \E text \in {None} \cup {Some(t) : t \in IncarTexts}, v \in DipolValues, force \in BOOLEAN :
       /\ incar = text
       /\ dipolArgs = [dipol_value |-> v, force |-> force, original |-> text]
  /\ incarOnce = None
  /\ applied = 0
  /\ fs = EmptyFs
  /\ aggPc = "idle"
  /\ asmPc = "idle"
  /\ AggIdle
  /\ AsmIdle
  /\ ParserIdle
  /\ TableIdle
  /\ RefIdle

DipolNext == DipolUpdate

SpecDipol == DipolInit /\ [][DipolNext]_vars

\* ------------------------------------------------------------------ claims
\* np.array_equal(..., equal_nan=True) on one element
SameFloat(a, b) == (a.nan /\ b.nan) \/ (~a.nan /\ ~b.nan /\ a.v = b.v)

\* The identifier and the energy each run supplies to the Assembler, as a set
\* of [index, energy] pairs: from the run directories in direct mode, from the
\* rows of the table in table mode.
DirectSupplies ==
  {[index |-> ParseIndex(n)[1], energy |-> AsmExtract(fs[n].doc, args.energy_type)] :
     n \in {m \in SelectedDirs(fs) : ParseIndex(m) # None}}

TableSupplies ==
  LET rows == exported.csv[1]
      col == ResolveEnergyColumn(CsvColumns)[1]
  IN {[index |-> rows[i].Index[1], energy |-> rows[i][col]] :
        i \in {j \in 1..Len(rows) : rows[j].Index # None}}

Supplies == IF args.source = "direct" THEN DirectSupplies ELSE TableSupplies

Assembled == energies # None /\ args.source \in {"direct", "csv"}

\* C1: whenever an array is assembled from a source with at least one
\* identifier, its length is max(identifier) + 1 and every position i for which
\* no run with identifier i supplied an energy holds the fill value.
C1_DenseArrayWithFill ==
  (Assembled /\ Supplies # {}) =>
    /\ Len(energies[1]) = Max({s.index : s \in Supplies}) + 1
    /\ \A i \in 0..(Len(energies[1]) - 1) :
         (~\E s \in Supplies : s.index = i /\ s.energy # None)
           => SameFloat(energies[1][i + 1], args.fill_value)

\* The value the claim expects for one labelled pattern: None for zero
\* occurrences, otherwise the number of the last occurrence (occurrences are the
\* matches of the parser's own pattern; nothing is expected when the text of
\* the last occurrence is no number).
LastOccurrence(items, label, pattern) ==
  LET caps == FindAll(items, label, pattern)
  IN IF caps = <<>> THEN [defined |-> TRUE, value |-> None]
     ELSE [defined |-> PyFloat(Last(caps)) # None, value |-> PyFloat(Last(caps))]

AgreesWithLast(field, expected) == expected.defined => field = expected.value

\* The Assembler's parser reaches its patterns (the guards of lines 55-68 pass).
AsmReachesPatterns(d) ==
  d.exists /\ d.readable /\ d.size >= MinOutcarSize /\ "marker" \in Labels(d)

\* C2: for every readable document, each energy field of the parser is the
\* number of the last occurrence of its labelled pattern, and is None when the
\* pattern does not occur (the Aggregator's two fields; the Assembler's selected
\* energy type).
C2_LastOccurrenceOrNone ==
  /\ (aggOut # None /\ doc.exists /\ doc.readable) =>
       /\ AgreesWithLast(aggOut[1].energy_without_entropy, LastOccurrence(doc.items, "woe", "loose"))
       /\ AgreesWithLast(aggOut[1].energy_sigma_0, LastOccurrence(doc.items, "sigma", "loose"))
  /\ (asmOut # None /\ AsmReachesPatterns(doc)) =>
       AgreesWithLast(asmOut[1],
                      IF etype = "sigma0" THEN LastOccurrence(doc.items, "sigma", "strict")
                      ELSE LastOccurrence(doc.items, "toten", "toten"))

\* C2 for the Aggregator's parser alone.
C2_AggregatorPart ==
  (aggOut # None /\ doc.exists /\ doc.readable) =>
     /\ AgreesWithLast(aggOut[1].energy_without_entropy, LastOccurrence(doc.items, "woe", "loose"))
     /\ AgreesWithLast(aggOut[1].energy_sigma_0, LastOccurrence(doc.items, "sigma", "loose"))

\* The re-loaded array equals the in-memory array (NaN equal to NaN).
ReloadedEqual == loaded # None /\ loaded[1].ok /\ ArrayEqualNan(energies[1], loaded[1].data)

\* C3: the Assembler ends with exit status 0 only if the re-loaded array equals
\* the in-memory array; after a mismatch or a failed re-load the exit status is 1
\* and the completion banner is not printed.
C3_ExitZeroOnlyIfVerified ==
  /\ exitStatus = Some(0) => ReloadedEqual
  /\ banner => ReloadedEqual
  /\ (loaded # None /\ ~ReloadedEqual) => (exitStatus = Some(1) /\ ~banner)

\* An array with a fill position and an energy was saved, re-loaded equal, and
\* the run ended with status 0 and the banner.
C3_Witness ==
  /\ exitStatus = Some(0) /\ banner /\ ReloadedEqual
  /\ \E i, j \in 1..Len(energies[1]) : energies[1][i].nan /\ ~energies[1][j].nan

\* The document of the run directory a record was made from.
DocOf(row) == fs[row.Calculation].doc

\* C4: a run whose document is missing or smaller than 1000 bytes has no
\* primary energy in its record and is classified Failed.
C4_SmallOrMissingIsFailed ==
  \A i \in 1..Len(results) :
    (~DocOf(results[i]).exists \/ DocOf(results[i]).size < 1000) =>
      (results[i].Energy_without_entropy_eV = None /\ results[i].Status = "Failed")

\* C5: a directory whose name has no parseable numeric suffix contributes no
\* row to the table.
C5_UnparseableExcluded ==
  \A i \in 1..Len(results) : ParseIndex(results[i].Calculation) # None

\* The run directories whose identifier is a position of its own in the array.
OwnPosition(n) ==
  /\ n \in SelectedDirs(fs)
  /\ ParseIndex(n) # None
  /\ ParseIndex(n)[1] >= 0
  /\ \A m \in SelectedDirs(fs) \ {n} : ParseIndex(m) # ParseIndex(n)

\* C6: in direct-extraction mode with sigma0 selected, a run has a non-fill
\* value at its position exactly when the Aggregator records the sigma->0 energy
\* for the same run directory, and the value is that energy.
C6_DirectAgreesWithAggregator ==
  (Assembled /\ args.source = "direct" /\ args.energy_type = "sigma0" /\ args.fill_value = NaN) =>
    \A n \in {m \in DOMAIN fs : OwnPosition(m)} :
      LET recorded == AggRecord(n, AggExtract(fs[n].doc)).Energy_sigma_0_eV
          stored == energies[1][ParseIndex(n)[1] + 1]
      IN IF recorded = None THEN stored.nan ELSE SameFloat(stored, recorded[1])

\* The rows of the persisted table whose identifier is a position of its own.
OwnRow(rows, i) ==
  /\ rows[i].Index # None
  /\ rows[i].Index[1] >= 0
  /\ \A j \in 1..Len(rows) : j # i => rows[j].Index # rows[i].Index

\* the column the energy type stands for
SelectedColumn(energy_type) ==
  IF energy_type = "sigma0" THEN "Energy_sigma_0_eV" ELSE "Energy_without_entropy_eV"

\* C7: from a persisted table with both energy columns, the array holds the
\* values of the column the energy type selects (sigma0: the sigma->0 column).
C7_EnergyTypeSelectsColumn ==
  (Assembled /\ args.source = "csv") =>
    LET rows == exported.csv[1]
    IN \A i \in {j \in 1..Len(rows) : OwnRow(rows, j)} :
         LET cell == rows[i][SelectedColumn(args.energy_type)]
             stored == energies[1][rows[i].Index[1] + 1]
         IN IF cell = None THEN SameFloat(stored, args.fill_value) ELSE SameFloat(stored, cell[1])

\* C8: a record has Status Success exactly when its primary energy is present.
C8_SuccessIffPrimaryEnergy ==
  \A i \in 1..Len(results) :
    results[i].Status = "Success" <=> results[i].Energy_without_entropy_eV # None

\* A Success record without secondary energy, CPU time and convergence marker.
C8_Witness ==
  \E i \in 1..Len(results) :
    /\ results[i].Status = "Success"
    /\ results[i].Energy_sigma_0_eV = None
    /\ results[i].CPU_time_sec = None
    /\ ~results[i].Converged

\* Every number the Aggregator's parser converts is well formed.
NumbersWellFormed(d) ==
  \A i \in 1..Len(d.items) :
    LET cap == CaptureBy(IF d.items[i].label = "cpu" THEN "cpu" ELSE "loose", d.items[i].text)
    IN (d.items[i].label \in {"woe", "sigma", "cpu"} /\ cap # <<>>) => PyFloat(cap) # None

\* C9: for a document without the convergence marker the parser reports
\* converged = FALSE, and reports no error when the document is readable and its
\* numbers are well formed.
C9_NoMarkerNotConverged ==
  (aggOut # None /\ "marker" \notin Labels(doc)) =>
    /\ ~aggOut[1].converged
    /\ (doc.exists /\ doc.readable /\ NumbersWellFormed(doc)) => aggOut[1].error = None

\* A document with an energy and without the marker has been parsed.
C9_Witness ==
  /\ aggOut # None
  /\ "marker" \notin Labels(doc)
  /\ aggOut[1].energy_without_entropy # None
  /\ ~aggOut[1].converged
  /\ aggOut[1].error = None

\* Parsing the document raises inside the parser's try block.
ParseRaises(d) == d.exists /\ (~d.readable \/ ~NumbersWellFormed(d))

\* C10: the scan makes one record per selected directory, in the order of the
\* directories, whatever fails; it is past the loop only when every selected
\* directory is visited; a parse exception is in the record's Error.
C10_OneRecordPerDirectory ==
  (aggPc \notin {"idle", "parser"}) =>
    /\ visited \o calc_dirs = SortedNames(SelectedDirs(fs))
    /\ Len(results) = Len(visited)
    /\ \A i \in 1..Len(results) :
         /\ results[i].Calculation = visited[i]
         /\ ParseRaises(DocOf(results[i])) => results[i].Error # None
    /\ (aggPc # "scan") => calc_dirs = <<>>

\* The scan is complete over a run whose parsing raised and a run that succeeded.
C10_Witness ==
  /\ aggPc = "export"
  /\ \E i, j \in 1..Len(results) :
       /\ ParseRaises(DocOf(results[i])) /\ results[i].Error # None
       /\ results[j].Status = "Success"

\* The table carries no identifier information.
NoIdentifiers(table) ==
  "Index" \notin table.columns \/ \A i \in 1..Len(table.rows) : table.rows[i].Index = None

\* The same rows with an identifier column that numbers them in row order.
Reindexed(table) ==
  [columns |-> table.columns \cup {"Index"},
   rows |-> [i \in 1..Len(table.rows) |->
               [c \in table.columns \cup {"Index"} |->
                  IF c = "Index" THEN Some(i - 1) ELSE table.rows[i][c]]]]

\* The column the array of a supplied table is read from, by the precedence of the spec.
FirstEnergyColumn(columns) ==
  IF "Energy_eV" \in columns THEN "Energy_eV"
  ELSE IF "Energy_without_entropy_eV" \in columns THEN "Energy_without_entropy_eV"
  ELSE "Energy_sigma_0_eV"

TableAssembled == energies # None /\ userCsv # None

\* C11: when the table carries no identifier information, the array holds the
\* rows in row order, and what the Assembler returns (array and metadata)
\* differs from what it returns for the same rows identified by their position:
\* the degraded result is flagged.
C11_DegradedIsFlagged ==
  (TableAssembled /\ NoIdentifiers(userCsv[1]) /\ Len(userCsv[1].rows) > 0) =>
    LET table == userCsv[1]
        col == FirstEnergyColumn(table.columns)
        indexed == CreateFromCsv(Reindexed(table), Reindexed(table).rows, args.fill_value)
    IN /\ Len(energies[1]) = Len(table.rows)
       /\ \A i \in 1..Len(table.rows) :
            energies[1][i] = (IF table.rows[i][col] = None THEN args.fill_value
                              ELSE table.rows[i][col][1])
       /\ ~(indexed.ok /\ indexed.energies = energies[1] /\ indexed.metadata = metadata)

\* The run of a record has a usable primary energy.
HasPrimaryEnergy(row) == row.Energy_without_entropy_eV # None

\* The document of a record's run holds the convergence marker.
HasMarker(row) == "marker" \in Labels(DocOf(row))

\* C12: in the final report the failed list holds exactly the runs without a
\* usable primary energy and the not-converged list exactly the runs with an
\* energy and without the convergence marker, each in table order; no run is in
\* both; when no run converged and every run has an energy, every run is listed
\* as not converged and none as failed.
C12_ReportListsPartition ==
  report # None =>
    LET noEnergy(row) == ~HasPrimaryEnergy(row)
        energyNoMarker(row) == HasPrimaryEnergy(row) /\ ~HasMarker(row)
        failed == report[1].failed
        not_converged == report[1].not_converged
    IN /\ failed = NamesOf(SelectSeq(results, noEnergy))
       /\ not_converged = NamesOf(SelectSeq(results, energyNoMarker))
       /\ \A i \in 1..Len(failed), j \in 1..Len(not_converged) : failed[i] # not_converged[j]
       /\ (\A i \in 1..Len(results) : HasPrimaryEnergy(results[i]) /\ ~HasMarker(results[i]))
            => (not_converged = NamesOf(results) /\ failed = <<>>)

\* Two runs with an energy and without the marker are reported as not converged,
\* none as failed.
C12_Witness ==
  /\ report # None
  /\ Len(results) >= 2
  /\ \A i \in 1..Len(results) : HasPrimaryEnergy(results[i]) /\ ~HasMarker(results[i])
  /\ Len(report[1].not_converged) = Len(results)
  /\ report[1].failed = <<>>

\* A writer of the artifact raised.
WriteFailed(artifact) == \E i \in 1..Len(exportErrors) : exportErrors[i].artifact = artifact

\* C13: every failure to write the workbook is followed by the write of the
\* flat table, and the Exporter terminates with an error only when the write of
\* the flat table failed.
C13_AnyRichFailureFallsBack ==
  /\ WriteFailed("xlsx") => (exported.csv # None \/ WriteFailed("csv"))
  /\ (aggPc = "crashed" /\ summary # None) => WriteFailed("csv")

\* The workbook writer was unavailable (its import failed).
RichWriterUnavailable ==
  \E i \in 1..Len(exportErrors) : exportErrors[i] = WriteError("xlsx", "ImportError")

\* C14: whenever the workbook writer is unavailable and the Exporter gets past
\* its writes, the flat table and the auxiliary summary artifact are both
\* persisted, for every table (one without a successful run included).
C14_FallbackPersistsSummary ==
  (RichWriterUnavailable /\ aggPc \in {"report", "done"}) =>
    (exported.csv # None /\ exported.summary_csv # None)

\* C15: an Aggregator invocation never terminates with an unhandled error
\* before it has printed its summary counts, whatever the set of run
\* directories (the empty set and a set of failed runs included).
C15_SummaryAlwaysReported ==
  /\ aggPc = "crashed" => summary # None
  /\ aggPc \in {"export", "report", "done"} =>
       /\ summary # None
       /\ summary[1].total = Cardinality(SelectedDirs(fs))
       /\ summary[1].successful + summary[1].failed = summary[1].total

\* The table the Aggregator makes of a file system, whatever the enumeration:
\* one record per selected directory, in ascending order of the names.
TableOf(f) ==
  LET names == SortedNames(SelectedDirs(f))
  IN [i \in 1..Len(names) |-> AggRecord(names[i], AggExtract(f[names[i]].doc))]

\* C16: the table depends on the set of run directories and their documents
\* only: past the loop (looked at before the Assembler takes the table up, which
\* leaves it as it is) it holds the record of every selected directory, in
\* ascending lexicographic order of the directory names, for every order in
\* which the file system enumerates the entries.
C16_TableIndependentOfEnumeration ==
  /\ (aggPc \in {"export", "report", "done"} /\ asmPc = "idle") => results = TableOf(fs)
  /\ \A i, j \in 1..Len(results) :
       i < j => LexLess(results[i].Calculation, results[j].Calculation)

\* A table of two runs whose names are not told apart by their identifiers
\* alone: calc_0002 comes before calc_2.
C16_Witness ==
  /\ aggPc = "done"
  /\ Len(results) = 2
  /\ results[1].Calculation = Calc0002
  /\ results[2].Calculation = Calc2

\* C17: from a supplied table the energy column is the first of Energy_eV,
\* Energy_without_entropy_eV, Energy_sigma_0_eV that the table has; every value
\* of the array that is not the fill value is the number of that column, and a
\* row whose cell of that column is empty supplies no value, whatever its other
\* columns hold (in row order its position keeps the fill value); without any
\* of the three columns no array is produced.
C17_SingleEnergyColumn ==
  (userCsv # None /\ asmPc # "idle") =>
    LET table == userCsv[1]
        col == FirstEnergyColumn(table.columns)
    IN IF table.columns \cap EnergyColumns = {}
       THEN energies = None /\ exitStatus = Some(1)
       ELSE energies # None =>
              /\ \A i \in 1..Len(energies[1]) :
                   \/ energies[1][i] = args.fill_value
                   \/ energies[1][i] = ColumnValue(col)
              /\ NoIdentifiers(table) =>
                   \A i \in 1..Len(table.rows) :
                     (energies[1][i] = args.fill_value) <=> (table.rows[i][col] = None)

\* An array was read from the second column of the precedence list although a
\* row's cell of the third column is filled where the second is empty.
C17_Witness ==
  /\ userCsv # None /\ energies # None
  /\ userCsv[1].columns = {"Index", "Energy_without_entropy_eV", "Energy_sigma_0_eV"}
  /\ \E i \in 1..Len(userCsv[1].rows) :
       /\ OwnRow(userCsv[1].rows, i)
       /\ userCsv[1].rows[i].Energy_without_entropy_eV = None
       /\ userCsv[1].rows[i].Energy_sigma_0_eV # None
       /\ energies[1][userCsv[1].rows[i].Index[1] + 1] = args.fill_value
  /\ \E i \in 1..Len(energies[1]) : energies[1][i] = ColumnValue("Energy_without_entropy_eV")

\* The structure files of the references E1..E4, in this order.
ExpectedStructures ==
  <<"POSCAR_film_slab", "POSCAR_sub_slab", "POSCAR_film_double_slab", "POSCAR_sub_double_slab">>

\* The directories of the scaffolding whose name parses to the identifier i.
DirsOfIndex(i) == {n \in DOMAIN calculations : ParseIndex(n) = Some(i)}

\* C18: every directory the scaffolding creates is named calc_000i for an i in
\* 0..3 and holds the structure file of reference E(i+1); no two directories
\* share an identifier; after the loop, index i has a directory exactly when
\* its reference structure exists (and the run is not a dry run), so a missing
\* reference leaves its index empty and shifts no other reference.
C18_IndexBindsReference ==
  /\ \A n \in DOMAIN calculations :
       /\ StartsWithCalc(n) /\ Len(n) = 9
       /\ ParseIndex(n) # None
       /\ ParseIndex(n)[1] \in 0..3
       /\ calculations[n].POSCAR = ExpectedStructures[ParseIndex(n)[1] + 1]
       /\ calculations[n].POSCAR \in refArgs.poscars
  /\ \A i \in 0..3 : Cardinality(DirsOfIndex(i)) <= 1
  /\ refPc = "done" =>
       \A i \in 0..3 :
         (DirsOfIndex(i) # {}) <=> (ExpectedStructures[i + 1] \in refArgs.poscars /\ ~refArgs.dry_run)

\* The structure of E1 is missing: index 0 has no directory and calc_0001 holds
\* the structure of E2.
C18_Witness ==
  /\ refPc = "done"
  /\ "POSCAR_film_slab" \notin refArgs.poscars
  /\ DirsOfIndex(0) = {}
  /\ \E n \in DirsOfIndex(1) : calculations[n].POSCAR = "POSCAR_sub_slab"
  /\ setups.failed >= 1

\* The sigma->0 readings of the run directories: the numbers after
\* "energy(sigma->0) =" in their documents.
SigmaReadingsOf(d) ==
  LET caps == FindAll(d.items, "sigma", "strict")
  IN {PyFloat(caps[k])[1] : k \in {j \in 1..Len(caps) : PyFloat(caps[j]) # None}}

SigmaReadings == UNION {SigmaReadingsOf(fs[n].doc) : n \in SelectedDirs(fs)}

\* C19: in direct mode with sigma0 selected every element of the array that is
\* not the fill value is a sigma->0 reading of a run directory; none is taken
\* from a free-energy TOTEN line.
C19_OnlySelectedEnergyType ==
  (Assembled /\ args.source = "direct" /\ args.energy_type = "sigma0") =>
    \A i \in 1..Len(energies[1]) :
      \/ SameFloat(energies[1][i], args.fill_value)
      \/ \E r \in SigmaReadings : SameFloat(energies[1][i], r)

\* C20: from a source with identifiers, every energy the Assembler writes goes
\* to the position that equals the identifier of its run: the identifier of
\* every run that supplies an energy satisfies 0 <= identifier < len(array),
\* and a position holds an energy only if a run with that identifier supplied
\* it (negative identifiers included).
C20_PositionIsIdentifier ==
  (Assembled /\ Supplies # {}) =>
    /\ \A s \in Supplies :
         s.energy # None => (0 <= s.index /\ s.index < Len(energies[1]))
    /\ \A i \in 0..(Len(energies[1]) - 1) :
         SameFloat(energies[1][i + 1], args.fill_value)
           \/ \E s \in Supplies :
                s.index = i /\ s.energy # None /\ SameFloat(energies[1][i + 1], s.energy[1])

\* The positions of the array that hold an extracted energy: the ones that do
\* not hold the fill value (no document of the inputs holds the fill value).
ExtractedPositions ==
  {i \in 1..Len(energies[1]) : ~SameFloat(energies[1][i], args.fill_value)}

\* C21: for every assembled array the metadata counts agree with it:
\* successful_extractions + failed_extractions = total_calculations =
\* len(array), no count is negative, and successful_extractions is the number
\* of positions that hold an extracted energy (failed_extractions the number of
\* positions that hold the fill value).
C21_CountsAgreeWithArray ==
  Assembled =>
    LET m == metadata[1]
    IN /\ m.total_calculations = Len(energies[1])
       /\ m.successful_extractions + m.failed_extractions = m.total_calculations
       /\ m.successful_extractions >= 0
       /\ m.failed_extractions >= 0
       /\ m.successful_extractions = Cardinality(ExtractedPositions)
       /\ m.failed_extractions = Len(energies[1]) - Cardinality(ExtractedPositions)

\* The extracted energies of the array, in thousandths.
ExtractedValues == {energies[1][i].v : i \in ExtractedPositions}

\* C22: min_energy and max_energy of the metadata are the minimum and the
\* maximum of the extracted energies alone (None when there is none): no
\* position that holds the fill value takes part, whether the fill value is NaN
\* or a number.
C22_RangeOverExtractedOnly ==
  Assembled =>
    LET m == metadata[1]
    IN IF ExtractedValues = {}
       THEN m.min_energy = None /\ m.max_energy = None
       ELSE /\ m.min_energy = Some(Min(ExtractedValues))
            /\ m.max_energy = Some(Max(ExtractedValues))

\* C23: for every output name, the path the verification re-loads is the path
\* np.save wrote the array to, the metadata sidecar is written to another path
\* than the array, and the re-load never fails to find an array file there.
C23_VerifiesWrittenPath ==
  /\ asmPc \in {"saved", "described", "verified", "done"} /\ args.output_name # <<>> =>
       /\ args.output_name = SavePath(args.output_name)
       /\ MetadataPath(args.output_name) # SavePath(args.output_name)
  /\ loaded # None => loaded[1].ok

\* C24: with force, a second call of update_incar_dipol with the same value
\* leaves the parameter file as the first call left it, with the same number of
\* lines; and a call on a file that has a DIPOL line changes that line only,
\* so the number of lines stays the one of the file as first found.
C24_ForcedUpdateIdempotent ==
  (dipolArgs.force /\ incar # None) =>
    /\ applied >= 2 =>
         /\ incar = incarOnce
         /\ Len(ReadLines(incar[1])) = Len(ReadLines(incarOnce[1]))
    /\ (applied >= 1 /\ FirstDipolLine(ReadLines(dipolArgs.original[1])) # 0) =>
         /\ Len(ReadLines(incar[1])) = Len(ReadLines(dipolArgs.original[1]))
         /\ \A i \in 1..Len(ReadLines(dipolArgs.original[1])) :
              i # FirstDipolLine(ReadLines(dipolArgs.original[1]))
                => ReadLines(incar[1])[i] = ReadLines(dipolArgs.original[1])[i]

====
